---------------------------- MODULE Spec2Model ----------------------------
(***************************************************************************)
(* Stop-and-wait sender of sender.py: the orchestrator TCPSend, one        *)
(* TCPSendThread (Sender) and one TCPAckThread (Listener) per file, the    *)
(* shared list unacknowledged_packets, the Sender's lock and stop event,   *)
(* the Listener's own stop event, and the connection's socket.             *)
(*                                                                         *)
(* Files and connections are numbered 1..Len(files); the code's idx (and   *)
(* the connection id) is that number minus one.                            *)
(***************************************************************************)
EXTENDS Integers, Sequences, FiniteSets, TLC

\* ------------------------------------------------------------- constants

\* sender.py:11, the size of one chunk read from the file.
MAX_DATA_SIZE == 32768

\* Bounds of the model.
MaxChunks == 3      \* a file of Spec has at most this many chunks
MaxFiles == 2       \* a batch of BatchSpec has at most this many files
MaxTx == 3          \* transmissions of one packet are counted up to this
MaxLate == 2        \* timeouts before the acknowledgment, counted up to this
PortFiles == 3      \* a batch of PortSpec has at most this many files

\* The size of the last chunk of the files tried (70000 = 2 * 32768 + 4464).
LastChunk == 4464

\* A path that cannot be opened.
Missing == -1

\* sender.py:149, base_port = randint(1025, 65534).
MIN_BASE_PORT == 1025
MAX_BASE_PORT == 65534

\* The largest port sock.bind accepts ("bind(): port must be 0-65535").
MAX_PORT == 65535

NoPacket == [type |-> "none", id |-> -1, seq |-> -1, len |-> 0]

\* An id no connection of the batch uses.
OtherId == 99

Min(a, b) == IF a < b THEN a ELSE b

Range(s) == {s[i] : i \in DOMAIN s}

\* ------------------------------------------------------------- packets

\* Packet(type, id, seq, length, data); the payload bytes are left out.
Packet(type, id, seq, len) == [type |-> type, id |-> id, seq |-> seq, len |-> len]

\* Packet.__eq__, used by `in` and list.remove: a packet and its
\* acknowledgment are the same pending item when id and sequence number agree.
PacketEq(a, b) == a.id = b.id /\ a.seq = b.seq

\* Packet.pick_id(): one id per file.
PickId(i) == i - 1

\* ack_packet in self.unacknowledged_packets
Contains(q, p) == \E i \in DOMAIN q : PacketEq(q[i], p)

\* self.unacknowledged_packets.remove(ack_packet): drops the first equal item.
RECURSIVE Remove(_, _)
Remove(q, p) ==
    IF q = <<>> THEN <<>>
    ELSE IF PacketEq(Head(q), p) THEN Tail(q)
    ELSE <<Head(q)>> \o Remove(Tail(q), p)

\* A mutant of ChunkLoop: no read ahead, a chunk is the last one when it is
\* shorter than MAX_DATA_SIZE.
RECURSIVE ChunkLoopNoLookahead(_, _, _, _)
ChunkLoopNoLookahead(pid, seq, chunk, rest) ==
    LET next_chunk == Min(rest, MAX_DATA_SIZE) IN
    IF chunk < MAX_DATA_SIZE
    THEN <<Packet("FIN", pid, seq, chunk)>>
    ELSE <<Packet("DATA", pid, seq, chunk)>>
         \o (IF next_chunk > 0
             THEN ChunkLoopNoLookahead(pid, seq + 1, next_chunk, rest - next_chunk)
             ELSE <<>>)

\* The loop of file_to_packets (lines 173-181): chunk is the chunk in hand,
\* rest the bytes not yet read; next_chunk = read(MAX_DATA_SIZE).
RECURSIVE ChunkLoop(_, _, _, _)
ChunkLoop(pid, seq, chunk, rest) ==
    LET next_chunk == Min(rest, MAX_DATA_SIZE) IN
    IF next_chunk > 0
    THEN <<Packet("DATA", pid, seq, chunk)>>
         \o ChunkLoop(pid, seq + 1, next_chunk, rest - next_chunk)
    ELSE <<Packet("FIN", pid, seq, chunk)>>

\* list(file_to_packets(filename)) for a file of `size` bytes, or Missing.
file_to_packets(size, pid) ==
    IF size = Missing THEN <<>>
    ELSE LET chunk == Min(size, MAX_DATA_SIZE) IN
         IF chunk > 0 THEN ChunkLoop(pid, 0, chunk, size - chunk) ELSE <<>>

\* What the peer answers to a packet it received (the receiving half is not
\* part of sender.py): ACK for DATA, FIN-ACK for FIN, same id and sequence.
AckOf(p) == Packet(IF p.type = "FIN" THEN "FIN-ACK" ELSE "ACK", p.id, p.seq, 0)

Seqs == 0 .. (MaxChunks - 1)

\* ------------------------------------------------------------- state

VARIABLES
    files,                   \* the batch: the size of each file, or Missing
    peer,                    \* "faithful": only acknowledgments of packets sent
                             \* arrive; "arbitrary": any datagram may arrive
    counted,                 \* how far the history counts in this run: tx up
                             \* to counted.tx, late up to counted.late
    base_port,               \* the value randint(1025, 65534) of line 149 gives
    oPc,                     \* where TCPSend.__init__ is
    idx,                     \* its loop index (1-based)
    send_threads,            \* the connections whose Sender it started
    unacknowledged_packets,  \* per connection: the shared pending list
    sPc,                     \* per connection: where TCPSendThread.run is
    packet,                  \* per connection: the Sender's local `packet`
    lock,                    \* per connection: who holds self.lock
    stop_flag,               \* per connection: the Sender's event self.stopped
    sock,                    \* per connection: "none", "open" or "closed"
    lPc,                     \* per connection: where TCPAckThread.run is
    ack_packet,              \* per connection: the Listener's local ack_packet
    ack_stopped,             \* per connection: the Listener's own event
    tx,                      \* history: transmissions of each sequence number
    late,                    \* history: timeouts before the acknowledgment came
    removed,                 \* history: sequence numbers in order of removal
    rcvd                     \* history: the Listener has received a datagram

vars == <<files, peer, counted, base_port, oPc, idx, send_threads, unacknowledged_packets, sPc,
          packet, lock, stop_flag, sock, lPc, ack_packet, ack_stopped,
          tx, late, removed, rcvd>>

orchVars == <<oPc, idx, send_threads>>
senderVars == <<sPc, packet, lock, stop_flag, sock>>
listenerVars == <<lPc, ack_packet, ack_stopped>>
histVars == <<tx, late, removed, rcvd>>

Conns == DOMAIN files

\* The pending list a connection starts with.
Original(c) == file_to_packets(files[c], PickId(c))

\* ------------------------------------------------------------- Init

InitWith(batches, peers, counts, ports) ==
    /\ files \in batches
    /\ peer \in peers
    /\ counted = counts
    /\ base_port \in ports
    /\ oPc = "split"
    /\ idx = 1
    /\ send_threads = <<>>
    /\ unacknowledged_packets = [c \in Conns |-> <<>>]
    /\ sPc = [c \in Conns |-> "unstarted"]
    /\ packet = [c \in Conns |-> NoPacket]
    /\ lock = [c \in Conns |-> "free"]
    /\ stop_flag = [c \in Conns |-> FALSE]
    /\ sock = [c \in Conns |-> "none"]
    /\ lPc = [c \in Conns |-> "unstarted"]
    /\ ack_packet = [c \in Conns |-> NoPacket]
    /\ ack_stopped = [c \in Conns |-> FALSE]
    /\ tx = [c \in Conns |-> [k \in Seqs |-> 0]]
    /\ late = [c \in Conns |-> [k \in Seqs |-> 0]]
    /\ removed = [c \in Conns |-> <<>>]
    /\ rcvd = [c \in Conns |-> FALSE]

\* File sizes giving 0 .. MaxChunks packets, and a missing file.
FileSizes ==
    {Missing, 0} \cup {k * MAX_DATA_SIZE + LastChunk : k \in 0 .. (MaxChunks - 1)}

\* Spec: one file, any peer; transmissions and late timeouts are counted up
\* to MaxTx and MaxLate. The port of a single file is base_port itself, valid
\* for every draw.
Init ==
    InitWith({<<s>> : s \in FileSizes}, {"faithful", "arbitrary"},
             [tx |-> MaxTx, late |-> MaxLate], {MAX_BASE_PORT})


\* ------------------------------------------------------------- orchestrator

\* Lines 142-149: every file is split into its packet list before any
\* connection is started.
Split ==
    /\ oPc = "split"
    /\ unacknowledged_packets' = [c \in Conns |-> Original(c)]
    /\ oPc' = "start"
    /\ UNCHANGED <<files, peer, counted, base_port, idx, send_threads>>
    /\ UNCHANGED <<senderVars, listenerVars, histVars>>

\* TCPSendThread.__init__ (lines 68-76) succeeds when packets[0] exists.
ConstructorOk(packets) == Len(packets) > 0

\* What follows the body of the loop of lines 151-160.
AfterStart(i) == IF i < Len(files) THEN "start" ELSE "join"

\* Lines 151-160 for a file with packets: the Sender is constructed and
\* started, and the loop goes on to the next file or ends.
StartThread ==
    /\ oPc = "start"
    /\ ConstructorOk(unacknowledged_packets[idx])
    /\ sPc' = [sPc EXCEPT ![idx] = "bind"]
    /\ send_threads' = Append(send_threads, idx)
    /\ oPc' = AfterStart(idx)
    /\ idx' = IF AfterStart(idx) = "start" THEN idx + 1 ELSE 1
    /\ UNCHANGED <<files, peer, counted, base_port, unacknowledged_packets, packet, lock,
                   stop_flag, sock>>
    /\ UNCHANGED <<listenerVars, histVars>>

\* Line 75 for a file with no packet: packets[0] raises IndexError inside
\* the constructor call of line 157, nothing catches it, and
\* TCPSend.__init__ ends with that error.
StartAbort ==
    /\ oPc = "start"
    /\ ~ConstructorOk(unacknowledged_packets[idx])
    /\ oPc' = "aborted"
    /\ UNCHANGED <<files, peer, counted, base_port, idx, send_threads,
                   unacknowledged_packets>>
    /\ UNCHANGED <<senderVars, listenerVars, histVars>>

\* A thread object that has ended, by return or by an uncaught exception.
ThreadEnded(pc) == pc \in {"returned", "crashed"}

\* A mutant of JoinReturns: a join that does not wait.
JoinNoWait(c) == TRUE

\* thread.join() of line 163 returns.
JoinReturns(c) == ThreadEnded(sPc[c])

\* Lines 162-163: join the started Senders in order, then return.
JoinThread ==
    /\ oPc = "join"
    /\ JoinReturns(send_threads[idx])
    /\ oPc' = IF idx < Len(send_threads) THEN "join" ELSE "returned"
    /\ idx' = IF idx < Len(send_threads) THEN idx + 1 ELSE idx
    /\ UNCHANGED <<files, peer, counted, base_port, send_threads, unacknowledged_packets>>
    /\ UNCHANGED <<senderVars, listenerVars, histVars>>

\* ------------------------------------------------------------- Sender

\* A counter of the history that stops counting at cap.
Bump(n, cap) == IF n < cap THEN n + 1 ELSE n

\* The sequence numbers of the connection's packets (those of Original(c)).
SeqsOf(c) == {Original(c)[i].seq : i \in DOMAIN Original(c)}

\* sock.sendto(p.to_bytes(), self.dest), as the history sees it.
Transmit(c, p) ==
    tx' = [tx EXCEPT ![c][p.seq] = Bump(tx[c][p.seq], counted.tx)]

\* Line 155: src = (HOST, base_port + idx), idx counted from 0.
PortOf(c) == base_port + (c - 1)

\* sock.bind(self.src) of line 80 accepts the port.
BindOk(port) == port >= 0 /\ port <= MAX_PORT

\* Lines 79-80: the socket is created and bound. A port above 65535 makes
\* bind raise OverflowError: the with-block closes the socket and the thread
\* ends before the Listener is created.
SenderBind(c) ==
    /\ sPc[c] = "bind"
    /\ sock' = [sock EXCEPT ![c] = IF BindOk(PortOf(c)) THEN "open" ELSE "closed"]
    /\ sPc' = [sPc EXCEPT ![c] = IF BindOk(PortOf(c)) THEN "start_ack" ELSE "crashed"]
    /\ UNCHANGED <<files, peer, counted, base_port, orchVars, unacknowledged_packets, packet,
                   lock, stop_flag>>
    /\ UNCHANGED <<listenerVars, histVars>>

\* Lines 82-84: the Listener is constructed over the same list and socket,
\* with an Event of its own (line 115), and started.
SenderStartAck(c) ==
    /\ sPc[c] = "start_ack"
    /\ lPc' = [lPc EXCEPT ![c] = "loop"]
    /\ ack_stopped' = [ack_stopped EXCEPT ![c] = FALSE]
    /\ sPc' = [sPc EXCEPT ![c] = "test"]
    /\ UNCHANGED <<files, peer, counted, base_port, orchVars, unacknowledged_packets, packet,
                   lock, stop_flag, sock, ack_packet>>
    /\ UNCHANGED histVars

\* A mutant of LoopTest: the loop ends with one packet still pending.
LoopTestOffByOne(q) == Len(q) > 1

\* Line 86: while len(self.unacknowledged_packets) > 0
LoopTest(q) == Len(q) > 0

SenderTest(c) ==
    /\ sPc[c] = "test"
    /\ sPc' = [sPc EXCEPT ![c] =
                 IF LoopTest(unacknowledged_packets[c]) THEN "lock1" ELSE "join"]
    /\ UNCHANGED <<files, peer, counted, base_port, orchVars, unacknowledged_packets, packet,
                   lock, stop_flag, sock>>
    /\ UNCHANGED <<listenerVars, histVars>>

\* Lines 88 and 98: with self.lock. Only the Sender ever acquires this lock.
SenderAcquire(c) ==
    /\ sPc[c] \in {"lock1", "lock2"}
    /\ lock[c] = "free"
    /\ lock' = [lock EXCEPT ![c] = "sender"]
    /\ sPc' = [sPc EXCEPT ![c] = IF sPc[c] = "lock1" THEN "read" ELSE "retx"]
    /\ UNCHANGED <<files, peer, counted, base_port, orchVars, unacknowledged_packets, packet,
                   stop_flag, sock>>
    /\ UNCHANGED <<listenerVars, histVars>>

\* A mutant of HeadOf: the last pending packet instead of the first.
LastOf(q) == q[Len(q)]

\* self.unacknowledged_packets[0]
HeadOf(q) == q[1]

\* Line 89 when the list has a head: packet = self.unacknowledged_packets[0]
SenderReadHead(c) ==
    /\ sPc[c] = "read"
    /\ Len(unacknowledged_packets[c]) > 0
    /\ packet' = [packet EXCEPT ![c] = HeadOf(unacknowledged_packets[c])]
    /\ sPc' = [sPc EXCEPT ![c] = "send"]
    /\ UNCHANGED <<files, peer, counted, base_port, orchVars, unacknowledged_packets, lock,
                   stop_flag, sock>>
    /\ UNCHANGED <<listenerVars, histVars>>

\* Line 89 when the Listener emptied the list after the test of line 86:
\* IndexError. It leaves both with-blocks (the lock is released, the socket
\* closed) and ends the thread before line 102.
SenderReadEmpty(c) ==
    /\ sPc[c] = "read"
    /\ Len(unacknowledged_packets[c]) = 0
    /\ lock' = [lock EXCEPT ![c] = "free"]
    /\ sock' = [sock EXCEPT ![c] = "closed"]
    /\ sPc' = [sPc EXCEPT ![c] = "crashed"]
    /\ UNCHANGED <<files, peer, counted, base_port, orchVars, unacknowledged_packets, packet,
                   stop_flag>>
    /\ UNCHANGED <<listenerVars, histVars>>

\* Lines 90-91 and the end of the with-block.
SenderSend(c) ==
    /\ sPc[c] = "send"
    /\ Transmit(c, packet[c])
    /\ lock' = [lock EXCEPT ![c] = "free"]
    /\ sPc' = [sPc EXCEPT ![c] = "wait"]
    /\ UNCHANGED <<files, peer, counted, base_port, orchVars, unacknowledged_packets, packet,
                   stop_flag, sock>>
    /\ UNCHANGED <<listenerVars, late, removed, rcvd>>

\* The acknowledgment of p has been received by the Listener: it is being
\* handled, or p is no longer pending.
AckReceived(c, p) ==
    \/ ~Contains(unacknowledged_packets[c], p)
    \/ lPc[c] \in {"member", "remove"} /\ PacketEq(ack_packet[c], p)

\* A mutant of WaitResult: the end of the wait ends the loop.
WaitEndsLoop(flag) == "join"

\* Lines 94-97: `continue` to the loop test when wait returned True, on to
\* the retransmission when it returned False.
WaitResult(flag) == IF flag THEN "test" ELSE "lock2"

\* Lines 94-95: self.stopped.wait(self.timeout) returns True at once when the
\* event is set, and False when the timeout elapses with the event not set.
SenderWait(c) ==
    /\ sPc[c] = "wait"
    /\ sPc' = [sPc EXCEPT ![c] = WaitResult(stop_flag[c])]
    /\ late' = IF ~stop_flag[c] /\ ~AckReceived(c, packet[c])
               THEN [late EXCEPT ![c][packet[c].seq] =
                       Bump(late[c][packet[c].seq], counted.late)]
               ELSE late
    /\ UNCHANGED <<files, peer, counted, base_port, orchVars, unacknowledged_packets, packet,
                   lock, stop_flag, sock>>
    /\ UNCHANGED <<listenerVars, tx, removed, rcvd>>

\* A mutant of AfterRetransmit: the Sender gives up after a retransmission.
AfterRetransmitGiveUp == "join"

\* After line 100 the loop goes back to its test of line 86: there is no
\* count of the retransmissions and no deadline.
AfterRetransmit == "test"

\* Lines 99-100 and the end of the with-block: the local `packet` is sent
\* again, whatever the list holds by now.
SenderRetransmit(c) ==
    /\ sPc[c] = "retx"
    /\ Transmit(c, packet[c])
    /\ lock' = [lock EXCEPT ![c] = "free"]
    /\ sPc' = [sPc EXCEPT ![c] = AfterRetransmit]
    /\ UNCHANGED <<files, peer, counted, base_port, orchVars, unacknowledged_packets, packet,
                   stop_flag, sock>>
    /\ UNCHANGED <<listenerVars, late, removed, rcvd>>

\* ack_thread.join() of line 102 returns.
AckJoinReturns(c) == ThreadEnded(lPc[c])

\* Line 102.
SenderJoin(c) ==
    /\ sPc[c] = "join"
    /\ AckJoinReturns(c)
    /\ sPc' = [sPc EXCEPT ![c] = "close"]
    /\ UNCHANGED <<files, peer, counted, base_port, orchVars, unacknowledged_packets, packet,
                   lock, stop_flag, sock>>
    /\ UNCHANGED <<listenerVars, histVars>>

\* The end of the with-block of line 79 closes the socket; line 104.
SenderClose(c) ==
    /\ sPc[c] = "close"
    /\ sock' = [sock EXCEPT ![c] = "closed"]
    /\ sPc' = [sPc EXCEPT ![c] = "returned"]
    /\ UNCHANGED <<files, peer, counted, base_port, orchVars, unacknowledged_packets, packet,
                   lock, stop_flag>>
    /\ UNCHANGED <<listenerVars, histVars>>

\* ------------------------------------------------------------- Listener

\* The datagrams that may arrive on the connection's socket. The network may
\* lose, delay, reorder and duplicate: the acknowledgment of any packet
\* transmitted so far may arrive, any number of times. An arbitrary peer may
\* also send any acknowledgment of the connection, or a foreign datagram.
Datagrams(c) ==
    {AckOf(p) : p \in {q \in Range(Original(c)) : tx[c][q.seq] > 0}}
    \cup (IF peer = "arbitrary"
          THEN {Packet(t, PickId(c), k, 0) : t \in {"ACK", "FIN-ACK"}, k \in SeqsOf(c)}
               \cup {Packet("ACK", OtherId, 0, 0)}
          ELSE {})

\* Lines 121-122: the loop test on the Listener's own event, then the call of
\* recvfrom, which raises OSError on a socket closed by then.
ListenerLoop(c) ==
    /\ lPc[c] = "loop"
    /\ lPc' = [lPc EXCEPT ![c] =
                 IF ack_stopped[c] THEN "returned"
                 ELSE IF sock[c] = "closed" THEN "crashed" ELSE "recv"]
    /\ UNCHANGED <<files, peer, counted, base_port, orchVars, unacknowledged_packets, senderVars,
                   ack_packet, ack_stopped>>
    /\ UNCHANGED histVars

\* Lines 122-124: recvfrom returns a datagram, decoded into ack_packet. A
\* call that was blocked when the socket was closed still holds the socket.
ListenerRecv(c) ==
    /\ lPc[c] = "recv"
    /\ \E d \in Datagrams(c) : ack_packet' = [ack_packet EXCEPT ![c] = d]
    /\ lPc' = [lPc EXCEPT ![c] = "member"]
    /\ rcvd' = [rcvd EXCEPT ![c] = TRUE]
    /\ UNCHANGED <<files, peer, counted, base_port, orchVars, unacknowledged_packets, senderVars,
                   ack_stopped>>
    /\ UNCHANGED <<tx, late, removed>>

\* A mutant of AfterMember: the removal is not guarded by the membership test.
AfterMemberAlways(q, p) == "remove"

\* Line 126: line 127 runs only when ack_packet is in the list.
AfterMember(q, p) == IF Contains(q, p) THEN "remove" ELSE "fin"

\* Line 126.
ListenerMember(c) ==
    /\ lPc[c] = "member"
    /\ lPc' = [lPc EXCEPT ![c] =
                 AfterMember(unacknowledged_packets[c], ack_packet[c])]
    /\ UNCHANGED <<files, peer, counted, base_port, orchVars, unacknowledged_packets, senderVars,
                   ack_packet, ack_stopped>>
    /\ UNCHANGED histVars

\* list.remove(x) finds an item equal to x; it raises ValueError otherwise.
RemoveFinds(q, p) == \E i \in DOMAIN q : PacketEq(q[i], p)

\* Line 127. Only the Listener removes, so the packet found at line 126 is
\* still in the list; were it not, list.remove would raise ValueError and end
\* the thread.
ListenerRemove(c) ==
    /\ lPc[c] = "remove"
    /\ unacknowledged_packets' =
         [unacknowledged_packets EXCEPT ![c] = Remove(@, ack_packet[c])]
    /\ removed' = IF RemoveFinds(unacknowledged_packets[c], ack_packet[c])
                  THEN [removed EXCEPT ![c] = Append(@, ack_packet[c].seq)]
                  ELSE removed
    /\ lPc' = [lPc EXCEPT ![c] =
                 IF RemoveFinds(unacknowledged_packets[c], ack_packet[c])
                 THEN "fin" ELSE "crashed"]
    /\ UNCHANGED <<files, peer, counted, base_port, orchVars, senderVars, ack_packet, ack_stopped>>
    /\ UNCHANGED <<tx, late, rcvd>>

\* Lines 129-130, and back to the loop test.
ListenerFin(c) ==
    /\ lPc[c] = "fin"
    /\ ack_stopped' = [ack_stopped EXCEPT ![c] =
                         IF ack_packet[c].type = "FIN-ACK" THEN TRUE ELSE @]
    /\ ack_packet' = [ack_packet EXCEPT ![c] = NoPacket]
    /\ lPc' = [lPc EXCEPT ![c] = "loop"]
    /\ UNCHANGED <<files, peer, counted, base_port, orchVars, unacknowledged_packets, senderVars>>
    /\ UNCHANGED histVars

\* ------------------------------------------------------------- Next

Orchestrator == Split \/ StartThread \/ StartAbort \/ JoinThread

Sender(c) ==
    \/ SenderBind(c) \/ SenderStartAck(c) \/ SenderTest(c) \/ SenderAcquire(c)
    \/ SenderReadHead(c) \/ SenderReadEmpty(c) \/ SenderSend(c)
    \/ SenderWait(c) \/ SenderRetransmit(c) \/ SenderJoin(c) \/ SenderClose(c)

Listener(c) ==
    \/ ListenerLoop(c) \/ ListenerRecv(c) \/ ListenerMember(c)
    \/ ListenerRemove(c) \/ ListenerFin(c)

Next ==
    \/ Split
    \/ StartThread
    \/ StartAbort
    \/ JoinThread
    \/ \E c \in Conns : SenderBind(c)
    \/ \E c \in Conns : SenderStartAck(c)
    \/ \E c \in Conns : SenderTest(c)
    \/ \E c \in Conns : SenderAcquire(c)
    \/ \E c \in Conns : SenderReadHead(c)
    \/ \E c \in Conns : SenderReadEmpty(c)
    \/ \E c \in Conns : SenderSend(c)
    \/ \E c \in Conns : SenderWait(c)
    \/ \E c \in Conns : SenderRetransmit(c)
    \/ \E c \in Conns : SenderJoin(c)
    \/ \E c \in Conns : SenderClose(c)
    \/ \E c \in Conns : ListenerLoop(c)
    \/ \E c \in Conns : ListenerRecv(c)
    \/ \E c \in Conns : ListenerMember(c)
    \/ \E c \in Conns : ListenerRemove(c)
    \/ \E c \in Conns : ListenerFin(c)

Spec == Init /\ [][Next]_vars

\* A batch of one to MaxFiles files, each missing, empty or of one chunk, and
\* a peer that acknowledges what it receives. The history records only
\* whether a packet has been transmitted.
BatchInit ==
    InitWith(UNION {[1 .. n -> {Missing, 0, LastChunk}] : n \in 1 .. MaxFiles},
             {"faithful"}, [tx |-> 1, late |-> 0], {MIN_BASE_PORT, MAX_BASE_PORT})

BatchSpec == BatchInit /\ [][Next]_vars

\* The file sizes around the multiples of the chunk size, up to MaxChunks
\* chunks: k chunks and 1, LastChunk, MAX_DATA_SIZE - 1 or MAX_DATA_SIZE bytes.
SplitSizes ==
    {Missing, 0}
    \cup {k * MAX_DATA_SIZE + r :
            k \in 0 .. (MaxChunks - 1),
            r \in {1, LastChunk, MAX_DATA_SIZE - 1, MAX_DATA_SIZE}}

\* One file of any of these sizes, and a peer that acknowledges what it
\* receives.
SplitInit ==
    InitWith({<<s>> : s \in SplitSizes}, {"faithful"}, [tx |-> 1, late |-> 0],
             {MAX_BASE_PORT})

SplitSpec == SplitInit /\ [][Next]_vars

\* A batch of one to PortFiles files, each missing or of one chunk, and the
\* base ports at the ends of the range of line 149 and one below the top.
PortInit ==
    InitWith(UNION {[1 .. n -> {Missing, LastChunk}] : n \in 1 .. PortFiles},
             {"faithful"}, [tx |-> 1, late |-> 0],
             {MIN_BASE_PORT, MAX_BASE_PORT - 1, MAX_BASE_PORT})

PortSpec == PortInit /\ [][Next]_vars

\* Weak fairness of the two threads of every connection: a thread that can
\* take a step of its own code eventually takes it. The arrival of a datagram
\* (ListenerRecv) is the network's step, not the thread's, and is not forced.
SenderStep(c) == c \in Conns /\ Sender(c)

ListenerStep(c) ==
    /\ c \in Conns
    /\ ListenerLoop(c) \/ ListenerMember(c) \/ ListenerRemove(c) \/ ListenerFin(c)

FairSpec ==
    /\ Init
    /\ [][Next]_vars
    /\ \A c \in 1 .. MaxFiles : WF_vars(SenderStep(c)) /\ WF_vars(ListenerStep(c))

\* The behaviours of FairSpec with every history counter capped at its first
\* step: the counters record what happened and steer nothing, so the threads
\* behave as under FairSpec.
LiveInit ==
    InitWith({<<s>> : s \in FileSizes}, {"faithful", "arbitrary"},
             [tx |-> 1, late |-> 0], {MAX_BASE_PORT})

LiveSpec ==
    /\ LiveInit
    /\ [][Next]_vars
    /\ \A c \in 1 .. MaxFiles : WF_vars(SenderStep(c)) /\ WF_vars(ListenerStep(c))

\* ------------------------------------------------------------- claims

\* The Sender is at a sendto (line 90 or line 99): its next step transmits
\* its local `packet`.
AtSendto(c) == sPc[c] \in {"send", "retx"}

\* The pending packets that have been transmitted at least once.
InFlight(c) ==
    {q \in Range(unacknowledged_packets[c]) : tx[c][q.seq] > 0}

\* The loop of lines 86-100 has ended normally.
LoopEnded(c) == sPc[c] \in {"join", "close", "returned"}

\* C1: stop-and-wait. Under every interleaving and every loss, delay and
\* duplication (and any forged datagram), whenever the Sender transmits a
\* packet no packet of a lower sequence number is still pending, and at most
\* one pending packet has ever been transmitted.
C1_StopAndWait ==
    \A c \in Conns :
        /\ AtSendto(c) =>
             \A q \in Range(unacknowledged_packets[c]) : q.seq >= packet[c].seq
        /\ Cardinality(InFlight(c)) <= 1

\* C1's case: the second packet is about to be retransmitted while it and a
\* later packet are pending, the first one acknowledged.
C1_Witness ==
    \E c \in Conns :
        /\ sPc[c] = "retx" /\ packet[c].seq = 1
        /\ Len(unacknowledged_packets[c]) = 2
        /\ removed[c] = <<0>>

\* C2: with a peer that acknowledges what it receives, when every
\* acknowledgment is received before the timeout of its packet elapses, the
\* loop ends with every packet transmitted exactly once.
C2_NoRetransmission ==
    \A c \in Conns :
        (peer = "faithful" /\ LoopEnded(c) /\ \A k \in SeqsOf(c) : late[c][k] = 0)
            => \A k \in SeqsOf(c) : tx[c][k] = 1

\* C3: with a peer that acknowledges what it receives, a packet whose
\* acknowledgment came after one timeout and before a second one has been
\* transmitted exactly twice when the loop ends, and the packets acknowledged
\* in time exactly once.
C3_OneRetransmission ==
    \A c \in Conns : \A k \in SeqsOf(c) :
        (peer = "faithful" /\ LoopEnded(c) /\ late[c][k] = 1) =>
            /\ tx[c][k] = 2
            /\ \A j \in SeqsOf(c) \ {k} : late[c][j] = 0 => tx[c][j] = 1

\* C4: the step that ends the Listener's handling of a received datagram
\* leaves the Sender's event set (nothing in the code clears an event, so a
\* signal raised anywhere in the handling would still show).
C4_SignalRaised ==
    [][\A c \in Conns :
         (lPc[c] = "fin" /\ lPc'[c] = "loop") => stop_flag'[c]]_vars

\* C5: the Listener is never between its membership test and its removal
\* (lines 126-127) while the Sender holds the lock of lines 88 and 98.
C5_MutualExclusion ==
    \A c \in Conns : ~(lPc[c] = "remove" /\ lock[c] = "sender")

\* C6: in a batch where some file has packets, once the orchestrator is past
\* its start loop it has not been aborted by an error and has started a
\* connection for every file with packets.
C6_BatchIsolation ==
    ((\E c \in Conns : Original(c) # <<>>) /\ oPc \notin {"split", "start"}) =>
        /\ oPc # "aborted"
        /\ \A c \in Conns : Original(c) # <<>> => c \in Range(send_threads)

\* The pending list of the connection was a single FIN packet, the peer
\* acknowledges what it receives, and the Listener holds the matching FIN-ACK
\* it has just received.
FinAckDelivered(c) ==
    /\ c \in Conns
    /\ peer = "faithful"
    /\ Len(Original(c)) = 1
    /\ lPc[c] = "member"
    /\ ack_packet[c] = AckOf(Original(c)[1])

\* C7: in a connection of a single FIN packet, once the matching FIN-ACK is
\* delivered the Sender eventually returns (having seen the empty list and
\* joined the Listener).
C7_FinClose ==
    \A c \in 1 .. MaxFiles :
        FinAckDelivered(c) ~> (c \in Conns /\ sPc[c] = "returned")

\* C8: the Sender returns only when every packet of the original list has
\* been removed, each once, by a matching acknowledgment; with a peer that
\* acknowledges only what it receives the removals are in the order 0, 1, ...
C8_ClosedMeansAllAcked ==
    \A c \in Conns :
        sPc[c] = "returned" =>
            /\ unacknowledged_packets[c] = <<>>
            /\ Len(removed[c]) = Len(Original(c))
            /\ Range(removed[c]) = SeqsOf(c)
            /\ peer = "faithful" =>
                 removed[c] = [i \in 1 .. Len(Original(c)) |-> i - 1]

\* C8's case: a connection of three packets has closed with a faithful peer.
C8_Witness ==
    \E c \in Conns :
        sPc[c] = "returned" /\ Len(Original(c)) = 3 /\ peer = "faithful"

\* C9: the socket is closed only after the send loop has ended and the
\* Listener has terminated (shown with a peer that acknowledges what it
\* receives).
C9_CloseAfterListener ==
    \A c \in Conns :
        (peer = "faithful" /\ sock[c] = "closed")
            => (LoopEnded(c) /\ ThreadEnded(lPc[c]))

\* C10: the batch call has returned only if the Sender of every connection
\* it started has ended.
C10_ReturnAfterSenders ==
    oPc = "returned" => \A c \in Range(send_threads) : ThreadEnded(sPc[c])

\* C10's case: the call has returned from a batch of two started connections.
C10_Witness ==
    oPc = "returned" /\ Len(send_threads) = 2

\* The connection is set up (its socket bound) and its Listener has not
\* received any datagram so far.
NothingDelivered(c) == sock[c] = "open" /\ ~rcvd[c]

\* C11, as far as a state shows it: while nothing has been delivered the
\* pending list is the original one, the Sender has not ended, its `packet`
\* is the head, and the batch call has not returned.
C11_Stuck ==
    \A c \in Conns :
        NothingDelivered(c) =>
            /\ unacknowledged_packets[c] = Original(c)
            /\ Original(c) # <<>>
            /\ ~ThreadEnded(sPc[c])
            /\ packet[c] \in {NoPacket, HeadOf(Original(c))}
            /\ oPc # "returned"

\* C11: if no datagram is ever delivered on a set-up connection the Sender
\* never ends: the pending list is never modified, the batch call never
\* returns, and the Sender is at its retransmission of the head packet again
\* and again (there is no retry cap and no deadline).
C11_RetransmitsForever ==
    /\ []C11_Stuck
    /\ \A c \in 1 .. MaxFiles :
         []<>(c \in Conns =>
                (~NothingDelivered(c)
                 \/ (sPc[c] = "retx" /\ packet[c] = HeadOf(Original(c)))))

\* C11's case: the head packet has been transmitted, its wait has timed out
\* with nothing delivered (both past the count of the history), and the Sender
\* is about to send it again.
C11_Witness ==
    \E c \in Conns :
        /\ NothingDelivered(c)
        /\ tx[c][0] = counted.tx
        /\ late[c][0] = counted.late
        /\ sPc[c] = "retx"
        /\ packet[c] = HeadOf(Original(c))

\* The Listener has received a datagram of type FIN-ACK: it holds one, or
\* line 130 has set its event.
FinAckSeen(c) == ack_stopped[c] \/ ack_packet[c].type = "FIN-ACK"

\* C12: the Listener has ended, or the Sender is past its join of line 102,
\* only if the Listener has received a FIN-ACK.
C12_OnlyFinAckEnds ==
    \A c \in Conns :
        (ThreadEnded(lPc[c]) \/ sPc[c] \in {"close", "returned"})
            => FinAckSeen(c)

\* The Listener is handling (lines 126-130) an acknowledgment of a packet of
\* the connection that an earlier acknowledgment has removed.
HandlingDuplicate(c) ==
    /\ lPc[c] \in {"member", "remove", "fin"}
    /\ ack_packet[c].id = PickId(c)
    /\ ack_packet[c].seq \in Range(removed[c])
    /\ ~RemoveFinds(unacknowledged_packets[c], ack_packet[c])

\* C13: while the Listener handles a duplicate acknowledgment no step changes
\* the pending list (same length, elements and order) and the Listener does
\* not end with an error.
C13_DuplicateAckHarmless ==
    [][\A c \in Conns :
         HandlingDuplicate(c) =>
             /\ unacknowledged_packets'[c] = unacknowledged_packets[c]
             /\ lPc'[c] # "crashed"]_vars

\* C13's case: the acknowledgment of packet 0 has come again after packets 0
\* and 1 were removed, and has passed the membership test with the third
\* packet still pending.
C13_Witness ==
    \E c \in Conns :
        /\ lPc[c] = "fin"
        /\ ack_packet[c] = AckOf(Original(c)[1])
        /\ removed[c] = <<0, 1>>
        /\ Len(unacknowledged_packets[c]) = 1

\* The Listener is handling (lines 126-130) a datagram that equals no pending
\* packet: an unrelated one, or one decoded best-effort.
HandlingUnmatched(c) ==
    /\ lPc[c] \in {"member", "remove", "fin"}
    /\ ~RemoveFinds(unacknowledged_packets[c], ack_packet[c])

\* The Sender waits (line 94) after sending a packet that is still pending.
WaitingOnPending(c) ==
    /\ sPc[c] = "wait"
    /\ Contains(unacknowledged_packets[c], packet[c])

\* C14: while the Listener handles a datagram that matches no pending packet,
\* no step changes the pending list and none raises the Sender's signal (no
\* early wake-up at all, so at most one); and retransmission is not
\* suppressed: a Sender that waits on a pending packet while such a datagram
\* is handled gets to send that packet again, unless it is acknowledged first.
C14_UnmatchedIgnored ==
    /\ [][\A c \in Conns :
            HandlingUnmatched(c) =>
                /\ unacknowledged_packets'[c] = unacknowledged_packets[c]
                /\ stop_flag'[c] = stop_flag[c]]_vars
    /\ \A c \in 1 .. MaxFiles :
         (c \in Conns /\ HandlingUnmatched(c) /\ WaitingOnPending(c))
            ~> (c \in Conns
                /\ (\/ sPc[c] = "retx" /\ Contains(unacknowledged_packets[c], packet[c])
                    \/ ~Contains(unacknowledged_packets[c], packet[c])))

\* C14's case: a datagram of another connection has passed the membership
\* test and the Sender is retransmitting the packet, which is still pending.
C14_Witness ==
    \E c \in Conns :
        /\ lPc[c] = "fin"
        /\ ack_packet[c].id = OtherId
        /\ sPc[c] = "retx"
        /\ Contains(unacknowledged_packets[c], packet[c])

\* The number of chunks of a file of `size` bytes: ceil(size / MAX_DATA_SIZE).
ChunksOf(size) == (size + MAX_DATA_SIZE - 1) \div MAX_DATA_SIZE

\* The packet list of connection c is as line 145 built it: no thread of the
\* connection has been started yet.
FreshlySplit(c) == oPc # "split" /\ sPc[c] = "unstarted"

\* C15: a readable file of S > 0 bytes is split into n = ceil(S / C) packets
\* with sequence numbers 0 .. n-1 in order and one connection id; all but the
\* last are DATA of length C, the last is FIN of length S - (n-1)*C, also when
\* S is a multiple of C.
C15_Chunking ==
    \A c \in Conns :
        (FreshlySplit(c) /\ files[c] > 0) =>
            LET q == unacknowledged_packets[c]
                n == ChunksOf(files[c])
            IN /\ Len(q) = n
               /\ \A i \in 1 .. n :
                    /\ q[i].seq = i - 1
                    /\ q[i].id = q[1].id
                    /\ i < n => (q[i].type = "DATA" /\ q[i].len = MAX_DATA_SIZE)
                    /\ i = n => (/\ q[i].type = "FIN"
                                 /\ q[i].len = files[c] - (n - 1) * MAX_DATA_SIZE)

\* C15's cases: the file of 2 * 32768 + 4464 = 70000 bytes has been split
\* into packets of 32768, 32768 and 4464 bytes.
C15_Witness ==
    \E c \in Conns :
        /\ FreshlySplit(c)
        /\ files[c] = 2 * MAX_DATA_SIZE + LastChunk
        /\ [i \in 1 .. 3 |-> unacknowledged_packets[c][i].len]
             = <<MAX_DATA_SIZE, MAX_DATA_SIZE, LastChunk>>
        /\ [i \in 1 .. 3 |-> unacknowledged_packets[c][i].type]
             = <<"DATA", "DATA", "FIN">>

\* C16: whenever the Sender is about to read unacknowledged_packets[0]
\* (line 89), after its test of line 86, the list is not empty.
C16_HeadReadSafe ==
    \A c \in Conns :
        (peer = "faithful" /\ sPc[c] = "read") =>
            Len(unacknowledged_packets[c]) > 0

\* C17: whenever the Sender is about to call sendto (line 90 or line 99), the
\* packet it sends is the head of the pending list, and so has not been
\* removed by the Listener.
C17_SendsHead ==
    \A c \in Conns :
        (peer = "faithful" /\ AtSendto(c)) =>
            /\ unacknowledged_packets[c] # <<>>
            /\ PacketEq(HeadOf(unacknowledged_packets[c]), packet[c])

\* C18: whenever the Listener has ended, the pending list is empty.
C18_ListenerEndsOnEmpty ==
    \A c \in Conns :
        ThreadEnded(lPc[c]) => unacknowledged_packets[c] = <<>>

\* Connection c has been handed its source address (line 155) and started.
Started(c) == sPc[c] # "unstarted"

\* C19: the port base_port + idx of every started connection is a valid UDP
\* port number, at most 65535, and the ports of two started connections of the
\* batch differ.
C19_PortsValidAndDistinct ==
    \A c \in Conns :
        Started(c) =>
            /\ PortOf(c) <= MAX_PORT
            /\ \A d \in Conns \ {c} : Started(d) => PortOf(d) # PortOf(c)

=============================================================================
